---- MODULE Spec2Model ----
(***************************************************************************)
(* Tunnel/bridge tile codec (tunnel_map.h, tunnelbridge_map.h) and the     *)
(* tunnel resolver (tunnel_map.cpp) of OpenTTD.                            *)
(*                                                                         *)
(* A tile is the record of the fields the accessors read and write: the   *)
(* tile-type tag, m2 and m5.  The other fields (owner, m3, m4, m6, m7, m8, *)
(* rail/road types) are written by the Make* functions and read by no     *)
(* accessor modelled here, so they are left out of the state.              *)
(*                                                                         *)
(* part_000 holds two revisions of tunnel_map.h behind the same include    *)
(* guard; a build compiles one of them.  rev = 1 is the revision that      *)
(* stores the extended direction in m5 bit 0 / bits 6-7 (lines 1-133),     *)
(* rev = 2 the one that stores it in m5 bits 0-1 and m2 bit 7 (135-281).   *)
(***************************************************************************)
EXTENDS Integers, FiniteSets, Sequences, TLC

VARIABLES
    rev,      \* which revision of tunnel_map.h the build compiled
    msx,      \* Map::SizeX()
    msy,      \* Map::SizeY()
    hz,       \* heights of the raised tiles (all other tiles have height 0)
    tiles,    \* the tile array, restricted to the tiles the model writes
    call      \* the last call made: operation, arguments, outcome, result

vars == <<rev, msx, msy, hz, tiles, call>>

\* ------------------------------------------------------------------ bounds

\* Largest tile height (and probe height) of the model.
MaxZ == 1

\* Valid extent of the small maps (tiles per row or column inside the border).
SmallSpan == 3

\* --------------------------------------------------------------- constants

DIR_N == 0
DIR_E == 2
DIR_S == 4
DIR_W == 6

DIAGDIR_NE == 0
DIAGDIR_SE == 1
DIAGDIR_SW == 2
DIAGDIR_NW == 3

TRANSPORT_RAIL == 0
TRANSPORT_ROAD == 1

MAX_TUNNEL_STEPS == 1000

Directions == 0 .. 7
DiagDirections == 0 .. 3

\* ---------------------------------------------------------- bit arithmetic

RECURSIVE BitAnd(_, _)
BitAnd(a, b) ==
    IF a = 0 \/ b = 0 THEN 0
    ELSE (IF a % 2 = 1 /\ b % 2 = 1 THEN 1 ELSE 0) + 2 * BitAnd(a \div 2, b \div 2)

RECURSIVE BitOr(_, _)
BitOr(a, b) ==
    IF a = 0 THEN b
    ELSE IF b = 0 THEN a
    ELSE (IF a % 2 = 1 \/ b % 2 = 1 THEN 1 ELSE 0) + 2 * BitOr(a \div 2, b \div 2)

\* GB(x, s, n): the n bits of x starting at bit s.
GB(x, s, n) == (x \div (2 ^ s)) % (2 ^ n)

\* SB(x, s, n, d) on a uint8_t x: clear the n bits at s, then OR in d << s
\* (d is not masked; the result is truncated to the byte).
SB(x, s, n, d) ==
    BitOr(BitAnd(x, 255 - (((2 ^ n - 1) * (2 ^ s)) % 256)), (d * (2 ^ s)) % 256)

\* ------------------------------------------------------ direction vocabulary

\* DirToDiagDir: the diagonal direction an 8-way direction floors to.
DirToDiagDir(d) == d \div 2

\* DiagDirToDir: the 8-way direction a diagonal direction widens to.
DiagDirToDir(dd) == 2 * dd + 1

\* ReverseDir: the opposite 8-way direction.
ReverseDir(d) == (d + 4) % 8

\* ------------------------------------------------------------------ the map

MaxX == msx - 1
MaxY == msy - 1
MapSize == msx * msy

TileX(t) == t % msx
TileY(t) == t \div msx

\* A TileIndex is a uint32_t; an index that went below 0 stands for the
\* wrapped value 2^32 + t, which is at or above Map::Size().
IsValidTile(t) ==
    /\ t >= 0
    /\ t < MapSize
    /\ TileX(t) # MaxX
    /\ TileY(t) # MaxY

\* The tiles the Make* functions are applied to: of the rows and of the
\* columns inside the border, the first two and the last, and on a map longer
\* than the step limit only the first and the last valid column.
SiteXs ==
    IF MaxX > MAX_TUNNEL_STEPS THEN {0, MaxX - 1}
    ELSE {x \in {0, 1, MaxX - 1} : x >= 0 /\ x < MaxX}
SiteYs == {y \in {0, 1, MaxY - 1} : y >= 0 /\ y < MaxY}
Sites == {y * msx + x : x \in SiteXs, y \in SiteYs}

ClearTile == [type |-> "MP_CLEAR", m2 |-> 0, m5 |-> 0]

\* The tile at index t; tiles the model never writes stay as they were made.
TileAt(t) == IF t \in DOMAIN tiles THEN tiles[t] ELSE ClearTile

IsTunnelBridgeType(t) == TileAt(t).type = "MP_TUNNELBRIDGE"

GetTileZ(t) == IF t \in DOMAIN hz THEN hz[t] ELSE 0

NoCall ==
    [op |-> "none", t |-> -1, a |-> -1, b |-> -1, out |-> "none", ret |-> -1,
     prev |-> "none", pa |-> -1, q |-> {}]

\* The record of a call of op on tile t with arguments a, b that ended with
\* outcome out and result ret; prev/pa name the Make* call (and its
\* direction) that immediately preceded it on the same tile, if any; q is
\* the set of indices outside the map's valid extent at which the call
\* queried tile data.
MakeOps == {"MakeRoadTunnel", "MakeRailTunnel", "MakeRailTunnelDiag",
            "MakeRoadTunnel2", "MakeRailTunnel2"}

Called(op, t, a, b, out, ret) ==
    [op |-> op, t |-> t, a |-> a, b |-> b, out |-> out, ret |-> ret,
     prev |-> IF call.op \in MakeOps /\ call.t = t THEN call.op ELSE "none",
     pa   |-> IF call.op \in MakeOps /\ call.t = t THEN call.a ELSE -1,
     q    |-> {}]

BoolInt(p) == IF p THEN 1 ELSE 0

\* ------------------------------------------------------- tunnel_map.h, rev 1

\* IsTunnel: asserts the tile type, then tests the wormhole-kind bit.
IsTunnel(t) == GB(TileAt(t).m5, 7, 1) = 0

IsTunnelTile(t) == IsTunnelBridgeType(t) /\ IsTunnel(t)

\* m5 as MakeRoadTunnel leaves it.
RoadTunnelM5(d) == SB(SB(0, 0, 2, d), 2, 2, TRANSPORT_ROAD)

\* A mutation of ExtDirBits that stores the 3-bit direction in bits 0-2, the
\* layout the comment in MakeRailTunnel rules out.
ExtDirBitsLow3(m5, d) == SB(SB(m5, 0, 3, d), 5, 1, 1)

\* The extended-format writes of MakeRailTunnel on the byte m5: bit 0 of the
\* direction to bit 0, bits 1-2 to bits 6-7, and the extended flag (bit 5).
ExtDirBits(m5, d) == SB(SB(SB(m5, 0, 1, d % 2), 6, 2, (d \div 2) % 4), 5, 1, 1)

\* The standard-format writes: the diagonal direction to bits 0-1, flag cleared.
BaseDirBits(m5, dd) == SB(SB(m5, 0, 2, dd), 5, 1, 0)

\* The transport-type write.
TransportBits(m5, tt) == SB(m5, 2, 2, tt)

\* m5 as MakeRailTunnel(Tile, Owner, Direction, RailType) leaves it.
RailTunnelM5(d) ==
    LET dirbits ==
            IF d = DIR_N \/ d = DIR_E \/ d = DIR_S \/ d = DIR_W
            THEN ExtDirBits(0, d)
            ELSE BaseDirBits(0, DirToDiagDir(d))
    IN  TransportBits(dirbits, TRANSPORT_RAIL)

\* m5 as MakeRailTunnel(Tile, Owner, DiagDirection, RailType) leaves it.
RailTunnelDiagM5(d) == SB(SB(0, 0, 2, d), 2, 2, TRANSPORT_RAIL)

Made(op, t, d, m2, m5) ==
    /\ tiles' = [tiles EXCEPT ![t] = [type |-> "MP_TUNNELBRIDGE", m2 |-> m2, m5 |-> m5]]
    /\ call' = [NoCall EXCEPT !.op = op, !.t = t, !.a = d, !.out = "ok"]
    /\ UNCHANGED <<rev, msx, msy, hz>>

MakeRoadTunnel(t, d) ==
    /\ rev = 1
    /\ Made("MakeRoadTunnel", t, d, 0, RoadTunnelM5(d))

MakeRailTunnel(t, d) ==
    /\ rev = 1
    /\ Made("MakeRailTunnel", t, d, 0, RailTunnelM5(d))

MakeRailTunnelDiag(t, d) ==
    /\ rev = 1
    /\ Made("MakeRailTunnelDiag", t, d, 0, RailTunnelDiagM5(d))

\* ------------------------------------------------------- tunnel_map.h, rev 2

\* m2 and m5 as the revision-2 Make*Tunnel leave them.
TunnelM2Rev2(d) == IF d < 4 THEN BitAnd(0, 127) ELSE BitOr(0, 128)
TunnelM5Rev2(tt, d) == IF d < 4 THEN BitOr(tt * 4, d) ELSE BitOr(tt * 4, d - 4)

MakeRoadTunnel2(t, d) ==
    /\ rev = 2
    /\ Made("MakeRoadTunnel2", t, d, TunnelM2Rev2(d), TunnelM5Rev2(TRANSPORT_ROAD, d))

MakeRailTunnel2(t, d) ==
    /\ rev = 2
    /\ Made("MakeRailTunnel2", t, d, TunnelM2Rev2(d), TunnelM5Rev2(TRANSPORT_RAIL, d))

\* IsTunnelTile of revision 2: the result, or the failed assertion on m2.
IsTunnelTile2(t) ==
    LET is_tunnel == IsTunnelBridgeType(t) /\ IsTunnel(t)
    IN  IF is_tunnel /\ BitAnd(TileAt(t).m2, 128) # 0
        THEN [out |-> "assert", ret |-> -1]
        ELSE [out |-> "ok", ret |-> BoolInt(is_tunnel)]

IsTunnelTileCall(t) ==
    IF rev = 1 THEN [out |-> "ok", ret |-> BoolInt(IsTunnelTile(t))] ELSE IsTunnelTile2(t)

\* ------------------------------------------------------- tunnelbridge_map.h

\* GetTunnelBridgeDirection: asserts the tile type and returns DIR_N.
GetTunnelBridgeDirection(t) == DIR_N

\* GetTunnelBridgeTransportType: asserts the tile type and returns TRANSPORT_RAIL.
GetTunnelBridgeTransportType(t) == TRANSPORT_RAIL

\* The full direction a tunnel/bridge tile t decodes to when its m5 is m5:
\* the extended decoding when the tile is a tunnel, its transport type is
\* rail and the extended flag is set; the widened base direction otherwise.
FullDirectionOf(t, m5) ==
    IF GB(m5, 7, 1) = 0 /\ GetTunnelBridgeTransportType(t) = TRANSPORT_RAIL /\ GB(m5, 5, 1) = 1
    THEN BitOr(GB(m5, 0, 1), GB(m5, 6, 2) * 2)
    ELSE DiagDirToDir(GB(m5, 0, 2))

GetTunnelBridgeFullDirection(t) == FullDirectionOf(t, TileAt(t).m5)

\* The retrieval logic of test_direction_storage: with the extended flag
\* set, bit 0 and bits 6-7 put together; nothing (-1) without it.
RetrievedDirection(m5) ==
    IF GB(m5, 5, 1) = 1 THEN BitOr(GB(m5, 0, 1), GB(m5, 6, 2) * 2) ELSE -1

\* HasTunnelBridgeReservation: the two assertions, then false.
HasTunnelBridgeReservation(t) ==
    IF ~IsTunnelBridgeType(t) \/ GetTunnelBridgeTransportType(t) # TRANSPORT_RAIL
    THEN [out |-> "assert", ret |-> -1]
    ELSE [out |-> "ok", ret |-> 0]

\* SetTunnelBridgeReservation: the two assertions, then nothing.
SetTunnelBridgeReservation(t) ==
    IF ~IsTunnelBridgeType(t) \/ GetTunnelBridgeTransportType(t) # TRANSPORT_RAIL
    THEN [out |-> "assert", ret |-> -1]
    ELSE [out |-> "ok", ret |-> -1]

\* GetTunnelBridgeReservationTrackBits: TRACK_BIT_NONE (0) when nothing is
\* reserved, which is what HasTunnelBridgeReservation always answers.
GetTunnelBridgeReservationTrackBits(t) ==
    LET has == HasTunnelBridgeReservation(t)
    IN  IF has.out # "ok" THEN has
        ELSE IF has.ret = 0 THEN [out |-> "ok", ret |-> 0]
        ELSE [out |-> "ok", ret |-> 1 + GetTunnelBridgeDirection(t)]

\* The accessors that only assert the tile type.
TypeAsserted(t, ret) ==
    IF IsTunnelBridgeType(t) THEN [out |-> "ok", ret |-> ret] ELSE [out |-> "assert", ret |-> -1]

Query(op, t, a, res) ==
    /\ call' = Called(op, t, a, -1, res.out, res.ret)
    /\ UNCHANGED <<rev, msx, msy, hz, tiles>>

CallIsTunnelTile(t) == Query("IsTunnelTile", t, -1, IsTunnelTileCall(t))

CallGetTunnelBridgeDirection(t) ==
    Query("GetTunnelBridgeDirection", t, -1, TypeAsserted(t, GetTunnelBridgeDirection(t)))

CallGetTunnelBridgeFullDirection(t) ==
    Query("GetTunnelBridgeFullDirection", t, -1, TypeAsserted(t, GetTunnelBridgeFullDirection(t)))

CallGetTunnelBridgeTransportType(t) ==
    Query("GetTunnelBridgeTransportType", t, -1, TypeAsserted(t, GetTunnelBridgeTransportType(t)))

CallHasTunnelBridgeSnowOrDesert(t) ==
    Query("HasTunnelBridgeSnowOrDesert", t, -1, TypeAsserted(t, 0))

CallSetTunnelBridgeSnowOrDesert(t, b) ==
    Query("SetTunnelBridgeSnowOrDesert", t, BoolInt(b), TypeAsserted(t, -1))

CallHasTunnelBridgeReservation(t) ==
    Query("HasTunnelBridgeReservation", t, -1, HasTunnelBridgeReservation(t))

CallSetTunnelBridgeReservation(t, b) ==
    Query("SetTunnelBridgeReservation", t, BoolInt(b), SetTunnelBridgeReservation(t))

CallGetTunnelBridgeReservationTrackBits(t) ==
    Query("GetTunnelBridgeReservationTrackBits", t, -1, GetTunnelBridgeReservationTrackBits(t))

\* ------------------------------------------------------------ specification

\* The codec on a map of one row of valid tiles, under either revision.
Init ==
    /\ rev \in {1, 2}
    /\ msx = SmallSpan
    /\ msy = 2
    /\ hz = << >>
    /\ tiles = [t \in Sites |-> ClearTile]
    /\ call = NoCall

Next ==
    \/ \E t \in Sites, d \in DiagDirections : MakeRoadTunnel(t, d)
    \/ \E t \in Sites, d \in Directions : MakeRailTunnel(t, d)
    \/ \E t \in Sites, d \in DiagDirections : MakeRailTunnelDiag(t, d)
    \/ \E t \in Sites, d \in Directions : MakeRoadTunnel2(t, d)
    \/ \E t \in Sites, d \in Directions : MakeRailTunnel2(t, d)
    \/ \E t \in Sites : CallIsTunnelTile(t)
    \/ \E t \in Sites : CallGetTunnelBridgeDirection(t)
    \/ \E t \in Sites : CallGetTunnelBridgeFullDirection(t)
    \/ \E t \in Sites : CallGetTunnelBridgeTransportType(t)
    \/ \E t \in Sites : CallHasTunnelBridgeSnowOrDesert(t)
    \/ \E t \in Sites, b \in BOOLEAN : CallSetTunnelBridgeSnowOrDesert(t, b)
    \/ \E t \in Sites : CallHasTunnelBridgeReservation(t)
    \/ \E t \in Sites, b \in BOOLEAN : CallSetTunnelBridgeReservation(t, b)
    \/ \E t \in Sites : CallGetTunnelBridgeReservationTrackBits(t)

Spec == Init /\ [][Next]_vars

\* ----------------------------------------------------------- tunnel_map.cpp

\* TileOffsByDir / TileOffsByDiagDir: the index difference of one step.
DirDX(d) == CASE d \in {0, 1, 2} -> -1 [] d \in {3, 7} -> 0 [] OTHER -> 1
DirDY(d) == CASE d \in {0, 6, 7} -> -1 [] d \in {1, 5} -> 0 [] OTHER -> 1
TileOffsByDir(d) == DirDY(d) * msx + DirDX(d)
TileOffsByDiagDir(dd) == TileOffsByDir(DiagDirToDir(dd))

\* A mutation of SafetyCheckFails with the limit off by one (steps >= limit).
SafetyCheckFailsOffByOne(cur, steps) == ~IsValidTile(cur) \/ steps >= MAX_TUNNEL_STEPS

\* A mutation of SafetyCheckFails that forgets the map's extent.
SafetyCheckFailsNoExtent(cur, steps) == steps > MAX_TUNNEL_STEPS

\* The safety check of the loop body: off the map, or over the step limit.
SafetyCheckFails(cur, steps) == ~IsValidTile(cur) \/ steps > MAX_TUNNEL_STEPS

\* A mutation of EndFound that does not compare heights.
EndFoundAnyHeight(cur, reverse_dir, z) ==
    IsTunnelTile(cur) /\ GetTunnelBridgeFullDirection(cur) = reverse_dir

\* The negation of the loop condition: the walk ends on cur.
EndFound(cur, reverse_dir, z) ==
    ~(\/ ~IsTunnelTile(cur)
      \/ GetTunnelBridgeFullDirection(cur) # reverse_dir
      \/ GetTileZ(cur) # z)

\* GetOtherTunnelEnd: the entry assertion, then the do-while loop.  The loop
\* leaves in its first iteration whose tile fails the safety check (the
\* NOT_REACHED abort) or ends the walk (the return); steps is the number of
\* that iteration.  No iteration after MAX_TUNNEL_STEPS + 1 is ever entered.
GetOtherTunnelEnd(tile) ==
    IF ~IsTunnelTile(tile) THEN [out |-> "assert", ret |-> -1, steps |-> 0]
    ELSE
        LET dir == GetTunnelBridgeFullDirection(tile)
            delta == TileOffsByDir(dir)
            z == GetTileZ(tile)
            reverse_dir == ReverseDir(dir)
            Leaves(k) == \/ SafetyCheckFails(tile + k * delta, k)
                         \/ EndFound(tile + k * delta, reverse_dir, z)
            steps == CHOOSE k \in 1 .. (MAX_TUNNEL_STEPS + 1) :
                        Leaves(k) /\ \A j \in 1 .. (k - 1) : ~Leaves(j)
            current_tile == tile + steps * delta
        IN  IF SafetyCheckFails(current_tile, steps)
            THEN [out |-> "NOT_REACHED", ret |-> -1, steps |-> steps]
            ELSE [out |-> "return", ret |-> current_tile, steps |-> steps]

\* The tile array holds the indices below Map::Size().
InArray(t) == t >= 0 /\ t < MapSize

\* In each of the first 10 iterations the Debug calls evaluate IsTunnelTile,
\* GetTileZ and GetTunnelBridgeFullDirection on the new tile before the
\* safety check looks at it: true when one of those tiles is outside the
\* tile array.
DebugReadsOutside(tile, delta, steps) ==
    \E k \in 1 .. (IF steps <= 10 THEN steps ELSE 10) : ~InArray(tile + k * delta)

\* What a call of GetOtherTunnelEnd can end in.  The values the Debug calls
\* compute are only logged, so a read inside the array changes nothing; a
\* read outside the array is undefined: it yields some value, or the call
\* dies in that read ("fault").
GetOtherTunnelEndOutcomes(tile) ==
    LET r == GetOtherTunnelEnd(tile)
        delta == TileOffsByDir(GetTunnelBridgeFullDirection(tile))
    IN  IF r.out # "assert" /\ DebugReadsOutside(tile, delta, r.steps)
        THEN {r, [out |-> "fault", ret |-> -1, steps |-> r.steps]}
        ELSE {r}

\* The indices outside the valid extent at which a call of GetOtherTunnelEnd
\* that took steps iterations queried tile data (IsTunnelTile, GetTileZ,
\* GetTunnelBridgeFullDirection).  Iteration k queries its tile in the Debug
\* calls when k <= 10, before the safety check, and in the loop condition
\* when the safety check passed; the Debug calls of the failing branch are
\* guarded by IsValidTile.
GetOtherTunnelEndQueries(tile, steps) ==
    LET delta == TileOffsByDir(GetTunnelBridgeFullDirection(tile))
        Queried(k) == k <= 10 \/ ~SafetyCheckFails(tile + k * delta, k)
    IN  {tile + k * delta : k \in {j \in 1 .. steps :
                                     Queried(j) /\ ~IsValidTile(tile + j * delta)}}

\* IsTunnelInWayDir: step back against dir while the tile is higher than z;
\* false off the map, else the test of the tile the loop stopped on.
IsTunnelInWayDir(tile, z, dir) ==
    LET delta == TileOffsByDiagDir(dir)
        Leaves(k) == ~IsValidTile(tile - k * delta) \/ ~(z < GetTileZ(tile - k * delta))
        steps == CHOOSE k \in 1 .. (msx + msy) :
                    Leaves(k) /\ \A j \in 1 .. (k - 1) : ~Leaves(j)
        last == tile - steps * delta
    IN  IF ~IsValidTile(last) THEN FALSE
        ELSE /\ z = GetTileZ(last)
             /\ IsTunnelTile(last)
             /\ GetTunnelBridgeDirection(last) = dir

\* The indices outside the valid extent at which IsTunnelInWayDir queried
\* tile data: each iteration reads GetTileZ only after IsValidTile held, and
\* the return expression reads the tile the loop stopped on.
IsTunnelInWayDirQueries(tile, z, dir) ==
    LET delta == TileOffsByDiagDir(dir)
        Leaves(k) == ~IsValidTile(tile - k * delta) \/ ~(z < GetTileZ(tile - k * delta))
        steps == CHOOSE k \in 1 .. (msx + msy) :
                    Leaves(k) /\ \A j \in 1 .. (k - 1) : ~Leaves(j)
        Queried(k) == IsValidTile(tile - k * delta)
    IN  {tile - k * delta : k \in {j \in 1 .. steps :
                                     Queried(j) /\ ~IsValidTile(tile - j * delta)}}

IsTunnelInWay(tile, z) ==
    \/ IsTunnelInWayDir(tile, z, IF TileX(tile) > MaxX \div 2 THEN DIAGDIR_NE ELSE DIAGDIR_SW)
    \/ IsTunnelInWayDir(tile, z, IF TileY(tile) > MaxY \div 2 THEN DIAGDIR_NW ELSE DIAGDIR_SE)

\* The directions IsTunnelInWay probes: the second only when the first probe
\* returned false.
IsTunnelInWayDirs(tile, z) ==
    LET first == IF TileX(tile) > MaxX \div 2 THEN DIAGDIR_NE ELSE DIAGDIR_SW
        second == IF TileY(tile) > MaxY \div 2 THEN DIAGDIR_NW ELSE DIAGDIR_SE
    IN  IF IsTunnelInWayDir(tile, z, first) THEN {first} ELSE {first, second}

IsTunnelInWayQueries(tile, z) ==
    UNION {IsTunnelInWayDirQueries(tile, z, dir) : dir \in IsTunnelInWayDirs(tile, z)}

Asked(op, t, a, b, out, ret, q) ==
    /\ call' = [NoCall EXCEPT !.op = op, !.t = t, !.a = a, !.b = b, !.out = out,
                              !.ret = ret, !.q = q]
    /\ UNCHANGED <<rev, msx, msy, hz, tiles>>

\* call.b holds the number of steps the walk took.
CallGetOtherTunnelEnd(t) ==
    \E r \in GetOtherTunnelEndOutcomes(t) :
        Asked("GetOtherTunnelEnd", t, -1, r.steps, r.out, r.ret,
              IF r.out = "assert" THEN {} ELSE GetOtherTunnelEndQueries(t, r.steps))

CallIsTunnelInWayDir(t, z, dir) ==
    Asked("IsTunnelInWayDir", t, z, dir, "ok", BoolInt(IsTunnelInWayDir(t, z, dir)),
          IsTunnelInWayDirQueries(t, z, dir))

CallIsTunnelInWay(t, z) ==
    Asked("IsTunnelInWay", t, z, -1, "ok", BoolInt(IsTunnelInWay(t, z)),
          IsTunnelInWayQueries(t, z))

\* The map is flat, or its second tile (of the row, or of the column when the
\* map has one valid column) is raised.
Hill == IF msx > 2 THEN 1 ELSE msx
HeightMaps == {<< >>} \cup {(Hill :> h) : h \in 1 .. MaxZ}

ResolverOps == {"GetOtherTunnelEnd", "IsTunnelInWayDir", "IsTunnelInWay"}

\* A run of the resolver specifications builds tunnels and then asks one
\* question of the resolver; the questions change nothing but call.
Building == call.op \notin ResolverOps

NextResolver ==
    \/ Building /\ \E t \in Sites, d \in DiagDirections : MakeRoadTunnel(t, d)
    \/ Building /\ \E t \in Sites, d \in Directions : MakeRailTunnel(t, d)
    \/ Building /\ \E t \in Sites, d \in DiagDirections : MakeRailTunnelDiag(t, d)
    \/ Building /\ \E t \in Sites : CallGetOtherTunnelEnd(t)

NextProbe ==
    \/ Building /\ \E t \in Sites, d \in DiagDirections : MakeRoadTunnel(t, d)
    \/ Building /\ \E t \in Sites, d \in Directions : MakeRailTunnel(t, d)
    \/ Building /\ \E t \in Sites, d \in DiagDirections : MakeRailTunnelDiag(t, d)
    \/ Building /\ \E t \in Sites, z \in 0 .. MaxZ, dir \in DiagDirections :
                      CallIsTunnelInWayDir(t, z, dir)
    \/ Building /\ \E t \in Sites, z \in 0 .. MaxZ : CallIsTunnelInWay(t, z)

\* The maps of the resolver specifications: one row, or one column, of
\* SmallSpan valid tiles, and one row whose last valid tile is
\* MAX_TUNNEL_STEPS, or one more, steps from its first.
InitResolver ==
    /\ rev = 1
    /\ \/ msx = SmallSpan + 1 /\ msy = 2
       \/ msx = 2 /\ msy = SmallSpan + 1
       \/ msx \in {MAX_TUNNEL_STEPS + 2, MAX_TUNNEL_STEPS + 3} /\ msy = 2
    /\ hz \in HeightMaps
    /\ tiles = [t \in Sites |-> ClearTile]
    /\ call = NoCall

\* Tunnel pairing.
SpecResolver == InitResolver /\ [][NextResolver]_vars

\* The obstruction probes.
SpecProbe == InitResolver /\ [][NextProbe]_vars

\* ------------------------------------------- direct mutation of the m5 byte

\* A write to the m5 byte of a tunnel/bridge tile; call.b keeps the old byte.
Wrote(op, t, a, m5) ==
    /\ IsTunnelBridgeType(t)
    /\ tiles' = [tiles EXCEPT ![t].m5 = m5]
    /\ call' = [NoCall EXCEPT !.op = op, !.t = t, !.a = a, !.b = tiles[t].m5, !.out = "ok"]
    /\ UNCHANGED <<rev, msx, msy, hz>>

WriteExtendedDirection(t, d) == Wrote("WriteExtendedDirection", t, d, ExtDirBits(tiles[t].m5, d))

WriteBaseDirection(t, dd) == Wrote("WriteBaseDirection", t, dd, BaseDirBits(tiles[t].m5, dd))

WriteTransportType(t, tt) == Wrote("WriteTransportType", t, tt, TransportBits(tiles[t].m5, tt))

\* Every raw value of the m5 byte on one tunnel/bridge tile.
InitRaw ==
    /\ rev = 1
    /\ msx = SmallSpan
    /\ msy = 2
    /\ hz = << >>
    /\ \E raw \in 0 .. 255 :
          tiles = [t \in Sites |->
                      IF t = 0 THEN [type |-> "MP_TUNNELBRIDGE", m2 |-> 0, m5 |-> raw]
                      ELSE ClearTile]
    /\ call = NoCall

NextRaw ==
    \/ \E t \in Sites, d \in {DIR_N, DIR_E, DIR_S, DIR_W} : WriteExtendedDirection(t, d)
    \/ \E t \in Sites, dd \in DiagDirections : WriteBaseDirection(t, dd)
    \/ \E t \in Sites, tt \in 0 .. 3 : WriteTransportType(t, tt)
    \/ \E d \in Directions : MakeRailTunnel(0, d)

SpecRaw == InitRaw /\ [][NextRaw]_vars

\* ------------------------------------------------------------------- claims

Rev1MakeOps == {"MakeRoadTunnel", "MakeRailTunnel", "MakeRailTunnelDiag"}

\* The 8-way direction a Make* call asked for: the argument of the Direction
\* overload, the widening of the argument of a DiagDirection one.
Requested(op, d) == IF op = "MakeRailTunnel" THEN d ELSE DiagDirToDir(d)

\* C1: a tunnel made by MakeRoadTunnel or MakeRailTunnel with direction d
\* decodes, with GetTunnelBridgeFullDirection, to exactly d.
C1_RoundTrip ==
    (call.op = "GetTunnelBridgeFullDirection" /\ call.prev \in Rev1MakeOps)
        => (call.out = "ok" /\ call.ret = Requested(call.prev, call.pa))

\* C2: after MakeRailTunnel with an 8-way direction d, GetTunnelBridgeDirection
\* returns the diagonal direction d floors to; after the 4-way overload it
\* returns the direction given.
C2_LegacyDirection ==
    /\ (call.op = "GetTunnelBridgeDirection" /\ call.prev = "MakeRailTunnel")
          => (call.out = "ok" /\ call.ret = DirToDiagDir(call.pa))
    /\ (call.op = "GetTunnelBridgeDirection" /\ call.prev = "MakeRailTunnelDiag")
          => (call.out = "ok" /\ call.ret = call.pa)

ReservationOps ==
    {"HasTunnelBridgeReservation", "SetTunnelBridgeReservation",
     "GetTunnelBridgeReservationTrackBits"}

\* C7: each reservation accessor, called on a tile MakeRoadTunnel has just
\* made, fails its precondition.
C7_ReservationGating ==
    (call.op \in ReservationOps /\ call.prev = "MakeRoadTunnel") => call.out = "assert"

\* C8: every tunnel/bridge tile whose extended-direction flag (m5 bit 5) is
\* set is a tunnel (m5 bit 7 clear) with rail in its transport field.
C8_ExtendedFlagInvariant ==
    \A t \in Sites :
        (IsTunnelBridgeType(t) /\ GB(TileAt(t).m5, 5, 1) = 1)
            => (IsTunnel(t) /\ GB(TileAt(t).m5, 2, 2) = TRANSPORT_RAIL)

\* C9: on every raw m5 byte, the direction writes (bit 0, bit 5, bits 6-7, and
\* the base field) leave the transport field (bits 2-3) as it was, the
\* transport write leaves the extended flag and the decoded direction as
\* they were, and MakeRailTunnel leaves rail in the transport field.
C9_Disjointness ==
    LET now == TileAt(call.t).m5
    IN  /\ call.op \in {"WriteExtendedDirection", "WriteBaseDirection"}
              => GB(now, 2, 2) = GB(call.b, 2, 2)
        /\ call.op = "WriteTransportType"
              => /\ GB(now, 5, 1) = GB(call.b, 5, 1)
                 /\ GB(now, 0, 2) = GB(call.b, 0, 2)
                 /\ RetrievedDirection(now) = RetrievedDirection(call.b)
                 /\ FullDirectionOf(call.t, now) = FullDirectionOf(call.t, call.b)
                 /\ GB(now, 2, 2) = call.a
        /\ call.op = "MakeRailTunnel" => GB(now, 2, 2) = TRANSPORT_RAIL

\* C9 witness: the extended direction DIR_W written over a byte that held
\* transport bits 3 and none of the direction bits.
C9_Witness ==
    /\ call.op = "WriteExtendedDirection"
    /\ call.a = DIR_W
    /\ call.b = 12
    /\ TileAt(call.t).m5 = 236

\* C10: IsTunnelTile never fails an assertion and returns true exactly for a
\* tunnel/bridge tile whose wormhole-kind bit (m5 bit 7) is clear.
C10_IsTunnelTileTotal ==
    call.op = "IsTunnelTile"
        => /\ call.out = "ok"
           /\ call.ret = BoolInt(IsTunnelBridgeType(call.t) /\ GB(TileAt(call.t).m5, 7, 1) = 0)

\* A tile that ends a walk looking for direction d at height z.
Endpoint(x, d, z) ==
    IsTunnelTile(x) /\ GetTunnelBridgeFullDirection(x) = d /\ GetTileZ(x) = z

\* (A, B) is a valid tunnel pair, B being k steps from A along A's direction:
\* two tunnel tiles of the map with the same transport field, the same
\* height and opposite full directions, every tile between them on the map
\* and none of those an endpoint for A or for B.
ValidPair(A, B, k) ==
    LET dA == GetTunnelBridgeFullDirection(A)
        delta == TileOffsByDir(dA)
        z == GetTileZ(A)
    IN  /\ B = A + k * delta
        /\ IsValidTile(A) /\ IsValidTile(B)
        /\ IsTunnelTile(A) /\ IsTunnelTile(B)
        /\ GB(TileAt(A).m5, 2, 2) = GB(TileAt(B).m5, 2, 2)
        /\ GetTileZ(B) = z
        /\ GetTunnelBridgeFullDirection(B) = ReverseDir(dA)
        /\ \A j \in 1 .. (k - 1) :
              /\ IsValidTile(A + j * delta)
              /\ ~Endpoint(A + j * delta, ReverseDir(dA), z)
              /\ ~Endpoint(A + j * delta, dA, z)

\* The number of steps of size delta from A to B, 0 when there is none.
StepsBetween(A, B, delta) ==
    IF delta > 0
    THEN IF B > A /\ (B - A) % delta = 0 THEN (B - A) \div delta ELSE 0
    ELSE IF A > B /\ (A - B) % (0 - delta) = 0 THEN (A - B) \div (0 - delta) ELSE 0

\* The valid pairs (A, B) with B at most limit steps from A are paired by
\* GetOtherTunnelEnd, which the last call applied to A, in both directions.
PairedWithin(limit) ==
    call.op = "GetOtherTunnelEnd"
        => \A B \in Sites :
              LET A == call.t
                  k == StepsBetween(A, B, TileOffsByDir(GetTunnelBridgeFullDirection(A)))
              IN  (k \in 1 .. limit /\ ValidPair(A, B, k))
                      => /\ call.out = "return" /\ call.ret = B
                         /\ GetOtherTunnelEnd(B).out = "return"
                         /\ GetOtherTunnelEnd(B).ret = A

C4_FirstMatchingTile ==
    (call.op = "GetOtherTunnelEnd" /\ call.out = "return")
        => LET A == call.t
               d == GetTunnelBridgeFullDirection(A)
               delta == TileOffsByDir(d)
               z == GetTileZ(A)
           IN  \E k \in 1 .. MAX_TUNNEL_STEPS :
                  /\ call.ret = A + k * delta
                  /\ IsTunnelTile(call.ret)
                  /\ GetTunnelBridgeFullDirection(call.ret) = ReverseDir(d)
                  /\ GetTileZ(call.ret) = z
                  /\ \A j \in 1 .. (k - 1) :
                        \/ ~IsTunnelTile(A + j * delta)
                        \/ GetTunnelBridgeFullDirection(A + j * delta) # ReverseDir(d)
                        \/ GetTileZ(A + j * delta) # z

\* C4 witness: the walk returned a tile after passing a tunnel tile that has
\* the reverse direction at another height.
C4_Witness ==
    /\ call.op = "GetOtherTunnelEnd"
    /\ call.out = "return"
    /\ LET A == call.t
           d == GetTunnelBridgeFullDirection(A)
           delta == TileOffsByDir(d)
       IN  \E j \in 1 .. (call.b - 1) :
              /\ IsTunnelTile(A + j * delta)
              /\ GetTunnelBridgeFullDirection(A + j * delta) = ReverseDir(d)
              /\ GetTileZ(A + j * delta) # GetTileZ(A)

C6_ProbeResult ==
    call.op = "IsTunnelInWayDir"
        => LET z == call.a
               dir == call.b
               delta == TileOffsByDiagDir(dir)
               V(k) == call.t - k * delta
               Higher(k) == IsValidTile(V(k)) /\ GetTileZ(V(k)) > z
               Stops(k) == /\ IsValidTile(V(k)) /\ GetTileZ(V(k)) <= z
                           /\ \A j \in 1 .. (k - 1) : Higher(j)
           IN  IF \E k \in 1 .. (msx + msy) : Stops(k)
               THEN LET k == CHOOSE k \in 1 .. (msx + msy) : Stops(k)
                    IN  call.ret = BoolInt(/\ GetTileZ(V(k)) = z
                                           /\ IsTunnelTile(V(k))
                                           /\ GB(TileAt(V(k)).m5, 0, 2) = dir)
               ELSE call.ret = 0

\* C11: neither resolver walk queries tile data (type, tunnel kind,
\* direction, height) at an index outside the map's valid extent: the
\* validity check of a step comes before every query on that step's tile.
C11_NoQueryOffMap ==
    call.op \in ResolverOps => call.q = {}

====
